---------------------------- MODULE Spec2Model ----------------------------
(***************************************************************************)
(* A model of the GIMME reconstruction of troppo                           *)
(* (src/src/reconstruction/methods/gimme.py) and of the omics entry point  *)
(* of its wrapper (src/src/troppo/methods_wrappers.py).                    *)
(*                                                                         *)
(* numpy arrays are functions over 0..n-1, so the index arithmetic of the  *)
(* source is kept as written.  A dict is a function over its keys.  An     *)
(* entry of the reaction mapping is a sequence: <<k>> is the int k and     *)
(* <<f, b>> the tuple (f, b), so isinstance(x, tuple) is Len(x) = 2.       *)
(* Numbers are integers; the flux threshold and the evidence values are    *)
(* taken on an integer scale on which -1 is still the no-data value.       *)
(*                                                                         *)
(* Every value is computed as the source computes it.  Six statements of   *)
(* gimme.py name something that is bound nowhere or pass the wrong number  *)
(* of values; the model reads them the one way the lines after them can    *)
(* run, and says so at the definition:                                     *)
(*   line 23  S, lb, ub            are self.S, self.lb, self.ub            *)
(*   line 33  adjust_objective_to_irreversible(Sn, obj) gets irrev_mapping *)
(*   line 86  rx_mapping           starts as an empty dict (and the line  *)
(*                                 is read without its unmatched "]")      *)
(*   line 87  irrev_mapping        is {i: n for n, i in enumerate(irrev)}  *)
(*   line 68  for orig, new in irrev_mapping  walks irrev_mapping.items()  *)
(*   line 90  nlb, nub = zeros(n)  are two zero vectors of length n        *)
(* An exception ends the call: pc = "raised" and err names its type.       *)
(***************************************************************************)
EXTENDS Integers, Sequences, FiniteSets, TLC

(***************************************************************************)
(* Bounds of the model.                                                    *)
(***************************************************************************)
\* largest number of reactions handed to make_irreversible on its own
MaxN == 3
\* largest number of reactions of a model handed to GIMME.run
MaxRunN == 2
\* rows of the stoichiometric matrix
NumMetabolites == 1
\* largest number of objectives of a run
MaxObjectives == 2
\* largest number of reactions of the wrapper's model reader
MaxReactions == 3
\* longest result list of the wrapped algorithm
MaxResultLen == 3

\* (lb, ub) of one reaction, lb <= ub: two irreversible shapes, one reversible
BoundPairs == {<<1, 2>>, <<-2, -1>>, <<-1, 2>>}
\* (lb, ub) of one reaction of a run
RunBoundPairs == {<<1, 2>>, <<-3, -2>>, <<-1, 2>>}
\* stoichiometric coefficients
Coefs == {1, 2}
\* evidence values: below -1, the no-data value -1, and values around the thresholds
EvidenceValues == {-2, -1, 0, 1, 2}
\* objective weights
ObjWeights == {0, 1}
\* flux thresholds
FluxThresholds == {1, 2}
\* what a Solution that is not optimal reports as its objective value
FailValues == {-1, 0}
\* what the wrapped algorithm may raise
Exceptions == {"ValueError", "RuntimeError"}
\* the type of the omics_data argument
OmicsTypes == {"OmicsContainer", "dict", "set"}

(***************************************************************************)
(* Arrays.                                                                 *)
(***************************************************************************)
Range(n) == 0 .. (n - 1)
Size(a) == Cardinality(DOMAIN a)
Zeros(n) == [i \in Range(n) |-> 0]
\* numpy's hstack of two arrays of columns
HStack(a, b) == [i \in Range(Size(a) + Size(b)) |->
                    IF i < Size(a) THEN a[i] ELSE b[i - Size(a)]]
\* numpy's unary minus on an array of columns
Negate(a) == [i \in DOMAIN a |-> [m \in DOMAIN a[i] |-> 0 - a[i][m]]]
Max2(a, b) == IF a >= b THEN a ELSE b

VARIABLES
    \* GIMME.__init__
    S, lb, ub, properties,
    \* locals of preprocess and run
    Sn, lb_n, ub_n, irrev_mapping, exp_vector, objectives,
    objective_values, statuses, gimme_model_objective, run_lb,
    gimme_solution, reaction_activity_irrev_model, reaction_activity_original,
    pc, err,
    \* ReconstructionWrapper.run_from_omics
    r_ids, omics_data, raise_errors, algorithm_outcome, w_pc, w_return, w_raised,
    w_printed

gimme_vars == <<S, lb, ub, properties, Sn, lb_n, ub_n, irrev_mapping, exp_vector,
                objectives, objective_values, statuses, gimme_model_objective,
                run_lb, gimme_solution, reaction_activity_irrev_model,
                reaction_activity_original, pc, err>>
wrapper_vars == <<r_ids, omics_data, raise_errors, algorithm_outcome, w_pc,
                  w_return, w_raised, w_printed>>
vars == <<gimme_vars, wrapper_vars>>

(***************************************************************************)
(* GIMME.make_irreversible                                                 *)
(***************************************************************************)
\* line 82: the condition under the "not"
Reversible(l, u, i) == l[i] < 0 /\ u[i] > 0

RECURSIVE Filter(_, _, _)
\* [i for i in range(n) if i in keep], in ascending order, from index i on
Filter(keep, i, n) ==
    IF i >= n THEN <<>>
    ELSE (IF i \in keep THEN <<i>> ELSE <<>>) \o Filter(keep, i + 1, n)

\* line 82
Irrev(l, u) == Filter({i \in DOMAIN l : ~Reversible(l, u, i)}, 0, Size(l))
\* line 86: [i for i in range(S.shape[1]) if i not in irrev]
Rev(l, u) ==
    LET irrev == Irrev(l, u)
    IN Filter({i \in DOMAIN l : \A n \in DOMAIN irrev : irrev[n] # i}, 0, Size(l))

\* numpy's reading of an index k of an axis of length n: a negative one counts from the end
NpIndex(k, n) == IF k < 0 THEN n + k ELSE k

\* line 83: S[:, irrev]
ColsSi(s, irrev) == [n \in Range(Len(irrev)) |-> s[NpIndex(irrev[n + 1], Size(s))]]
\* line 83: S[:, -irrev]: the index array negated, not its complement
ColsSr(s, irrev) == [n \in Range(Len(irrev)) |-> s[NpIndex(0 - irrev[n + 1], Size(s))]]

\* line 86: the entries of the reversible reactions, in the order update() inserts them
RevItems(rev, offset, srCols) ==
    [n \in 1 .. Len(rev) |-> <<rev[n], <<offset + (n - 1), offset + (n - 1) + srCols>>>>]
\* line 87: the entries of the irreversible reactions
IrrevItems(irrev) == [n \in 1 .. Len(irrev) |-> <<irrev[n], <<n - 1>>>>]

\* lines 86-87: rx_mapping as a function of the original index
RxMapping(items) ==
    [i \in {items[k][1] : k \in 1 .. Len(items)} |->
        LET k == CHOOSE k \in 1 .. Len(items) : items[k][1] = i IN items[k][2]]

RECURSIVE FillBounds(_, _, _, _, _, _)
\* lines 91-96: the loop over rx_mapping.items() from item k on; an index past
\* the end of nub raises IndexError
FillBounds(items, k, l, u, nlb, nub) ==
    IF k > Len(items) THEN [ok |-> TRUE, nlb |-> nlb, nub |-> nub]
    ELSE LET orig_rx == items[k][1]
             new_rx == items[k][2]
         IN IF Len(new_rx) = 2
            THEN IF new_rx[1] \notin DOMAIN nub \/ new_rx[2] \notin DOMAIN nub
                 THEN [ok |-> FALSE, nlb |-> nlb, nub |-> nub]
                 ELSE FillBounds(items, k + 1, l, u, nlb,
                        [[nub EXCEPT ![new_rx[1]] = l[orig_rx]]
                              EXCEPT ![new_rx[2]] = u[orig_rx]])
            ELSE FillBounds(items, k + 1, l, u,
                        [nlb EXCEPT ![new_rx[1]] = l[orig_rx]],
                        [nub EXCEPT ![new_rx[1]] = u[orig_rx]])

\* lines 81-98: what make_irreversible(S, lb, ub) returns, or the exception it raises.
\* An empty irrev is a float array, which numpy refuses as an index (line 83).
MakeIrreversibleResult(s, l, u) ==
    LET irrev == Irrev(l, u)
        rev == Rev(l, u)
    IN IF irrev = <<>>
       THEN [err |-> "IndexError"]
       ELSE LET Si == ColsSi(s, irrev)
                Sr == ColsSr(s, irrev)
                offset == Size(Si)
                items == RevItems(rev, offset, Size(Sr)) \o IrrevItems(irrev)
                S_new == HStack(HStack(Si, Sr), Negate(Sr))
                filled == FillBounds(items, 1, l, u, Zeros(Size(S_new)), Zeros(Size(S_new)))
            IN IF filled.ok
               THEN [err |-> "none", S_new |-> S_new, nlb |-> filled.nlb,
                     nub |-> filled.nub, rx_mapping |-> RxMapping(items)]
               ELSE [err |-> "IndexError"]


(***************************************************************************)
(* GIMME.preprocess                                                        *)
(***************************************************************************)
\* the keys of a dict over the reactions of mapping, in ascending order
Keys(d, mapping) == Filter(DOMAIN d, 0, Size(mapping))

RECURSIVE ExpVectorFrom(_, _, _, _, _)
\* lines 27-30: the loop over exp_rxns.items() from key k on; a value is stored
\* only under the isinstance(rxmap, tuple) test, which has no else branch
ExpVectorFrom(keys, k, exp_rxns, mapping, acc) ==
    IF k > Len(keys) THEN acc
    ELSE LET rxn == keys[k]
             val == exp_rxns[rxn]
             rxmap == mapping[rxn]
         IN IF Len(rxmap) = 2
            THEN ExpVectorFrom(keys, k + 1, exp_rxns, mapping,
                    [[acc EXCEPT ![rxmap[2]] = val] EXCEPT ![rxmap[1]] = val])
            ELSE ExpVectorFrom(keys, k + 1, exp_rxns, mapping, acc)

\* lines 26-30
ExpVector(exp_rxns, mapping, S_new) ==
    ExpVectorFrom(Keys(exp_rxns, mapping), 1, exp_rxns, mapping, Zeros(Size(S_new)))

RECURSIVE AdjustFrom(_, _, _, _)
\* lines 76-78: the loop over the nonzero ids from id on; a tuple as the index
\* of the one-dimensional objective_new raises IndexError
AdjustFrom(objective, id, mapping, acc) ==
    IF id >= Size(objective) THEN [ok |-> TRUE, objective_new |-> acc]
    ELSE IF objective[id] = 0 THEN AdjustFrom(objective, id + 1, mapping, acc)
    ELSE IF Len(mapping[id]) = 2 THEN [ok |-> FALSE, objective_new |-> acc]
    ELSE AdjustFrom(objective, id + 1, mapping,
                    [acc EXCEPT ![mapping[id][1]] = objective[id]])

\* lines 74-79
AdjustObjectiveToIrreversible(S_new, objective, mapping) ==
    AdjustFrom(objective, 0, mapping, Zeros(Size(S_new)))

(***************************************************************************)
(* GIMME.run                                                               *)
(***************************************************************************)
RECURSIVE SumOver(_, _, _)
\* the sum of term[i] for i in from..to
SumOver(term, from, to) ==
    IF from > to THEN 0 ELSE term[from] + SumOver(term, from + 1, to)

\* no flux vector lies within the bounds
BoxEmpty(l, u) == \E i \in DOMAIN l : l[i] > u[i]
\* the largest value of obj . v over the fluxes v within the bounds
BoxMax(obj, l, u) ==
    SumOver([i \in DOMAIN obj |-> Max2(obj[i] * l[i], obj[i] * u[i])], 0, Size(obj) - 1)

\* lines 49-51: what lso.optimize() answers to "maximise obj . v, matrix . v = 0,
\* l <= v <= u".  The solver is not part of the repository.  The matrix of every
\* run of this model is zero, so the problem is infeasible exactly when the
\* bounds leave no flux vector, and its optimum is otherwise the largest
\* value within them.
SolverAnswers(obj, l, u) ==
    IF BoxEmpty(l, u)
    THEN {[status |-> "infeasible", objective_value |-> f] : f \in FailValues}
    ELSE {[status |-> "optimal", objective_value |-> BoxMax(obj, l, u)]}

\* line 55 without its "-1 <" test: the no-data value is penalised like low evidence
GimmeModelObjectiveNoSentinel(exp, flux_thres, N) ==
    [i \in Range(N) |-> IF exp[i] < flux_thres THEN flux_thres - exp[i] ELSE 0]

\* line 55
GimmeModelObjective(exp, flux_thres, N) ==
    [i \in Range(N) |->
        IF -1 < exp[i] /\ exp[i] < flux_thres THEN flux_thres - exp[i] ELSE 0]

\* line 57: sum(o_k * f_k), element by element
ObjectiveLbs(objs, values, N) ==
    [i \in Range(N) |->
        SumOver([k \in DOMAIN objs |-> objs[k][i] * values[k]], 1, Len(objs))]

\* lines 58-59: lb[objective_ids] = objective_lbs[objective_ids]
TightenedLb(l, objective_lbs) ==
    [i \in DOMAIN l |-> IF objective_lbs[i] # 0 THEN objective_lbs[i] ELSE l[i]]

RECURSIVE MinimisersFrom(_, _, _, _)
\* the corners of the bounds at which obj . v is least, over the first n variables
MinimisersFrom(obj, l, u, n) ==
    IF n = 0 THEN {Zeros(0)}
    ELSE LET i == n - 1
             best == IF obj[i] > 0 THEN {l[i]}
                     ELSE IF obj[i] < 0 THEN {u[i]}
                     ELSE {l[i], u[i]}
         IN {[j \in Range(n) |-> IF j = i THEN x ELSE w[j]] :
                w \in MinimisersFrom(obj, l, u, i), x \in best}

\* lines 61-65: what gimme_lso.optimize() answers to "minimise obj . v" under the
\* tightened bounds: a value for each variable GIMMEi
GimmeSolutions(obj, l, u) ==
    IF BoxEmpty(l, u)
    THEN {[status |-> "infeasible", values |-> [i \in DOMAIN l |-> f]] : f \in FailValues}
    ELSE {[status |-> "optimal", values |-> v] : v \in MinimisersFrom(obj, l, u, Size(l))}

(***************************************************************************)
(* GIMME.get_reaction_activity and the fold back to the original reactions *)
(***************************************************************************)
\* solution.var_values().items(): the pairs (name, value) in variable order;
\* a Python value carries its type
VarValueItems(solution) ==
    [i \in DOMAIN solution.values |->
        <<[type |-> "str", val |-> i], [type |-> "float", val |-> solution.values[i]]>>]

\* line 101: kv[0] of each pair, the first component
GimmeFluxes(solution) == [i \in DOMAIN solution.values |-> VarValueItems(solution)[i][1]]

\* line 104: activity after the evidence mask is applied to zeros
EvidenceActivity(exp, flux_threshold) ==
    [i \in DOMAIN exp |-> IF exp[i] > flux_threshold \/ exp[i] = -1 THEN 1 ELSE 0]

\* lines 100-107: numpy has no ">" between an array of str and an int
GetReactionActivity(solution, exp, flux_threshold) ==
    LET gimme_fluxes == GimmeFluxes(solution)
        activity == EvidenceActivity(exp, flux_threshold)
    IN IF \E i \in DOMAIN gimme_fluxes : gimme_fluxes[i].type = "str"
       THEN [err |-> "TypeError", activity |-> activity]
       ELSE [err |-> "none",
             activity |-> [i \in DOMAIN activity |->
                              IF gimme_fluxes[i].val > 0 THEN 2 ELSE activity[i]]]

\* line 68: np.max(activity[new]) per entry; a tuple as the index of the
\* one-dimensional activity raises IndexError
FoldBack(activity, mapping) ==
    IF \E orig \in DOMAIN mapping : Len(mapping[orig]) = 2
    THEN [err |-> "IndexError", original |-> Zeros(0)]
    ELSE [err |-> "none",
          original |-> [orig \in DOMAIN mapping |-> activity[mapping[orig][1]]]]

(***************************************************************************)
(* Initial states                                                          *)
(***************************************************************************)
\* the dicts over a part of the reactions 0..n-1
Dicts(n, values) == UNION {[D -> values] : D \in SUBSET Range(n)}
\* the lists of 1..k elements of a set
Lists(k, elems) == UNION {[1 .. n -> elems] : n \in 1 .. k}
Columns == [Range(NumMetabolites) -> Coefs]

NoLocals ==
    /\ Sn = Zeros(0) /\ lb_n = Zeros(0) /\ ub_n = Zeros(0)
    /\ irrev_mapping = Zeros(0) /\ exp_vector = Zeros(0)
    /\ objectives = <<>> /\ objective_values = <<>> /\ statuses = <<>>
    /\ gimme_model_objective = Zeros(0) /\ run_lb = Zeros(0)
    /\ gimme_solution = [status |-> "none", values |-> Zeros(0)]
    /\ reaction_activity_irrev_model = Zeros(0)
    /\ reaction_activity_original = Zeros(0)
    /\ pc = "init" /\ err = "none"

NoWrapper ==
    /\ r_ids = Zeros(0) /\ omics_data = "dict" /\ raise_errors = TRUE
    /\ algorithm_outcome = [kind |-> "none", exc |-> "none", result |-> <<>>]
    /\ w_pc = "idle" /\ w_return = Zeros(0) /\ w_raised = "none" /\ w_printed = "none"

\* GIMME(S, lb, ub, properties) for a call of make_irreversible alone
InitIrrev ==
    /\ \E N \in 1 .. MaxN :
          /\ S \in [Range(N) -> Columns]
          /\ \E b \in [Range(N) -> BoundPairs] :
                /\ lb = [i \in Range(N) |-> b[i][1]]
                /\ ub = [i \in Range(N) |-> b[i][2]]
    /\ properties = [expression_rxns |-> Zeros(0), objectives |-> <<>>, flux_threshold |-> 1]
    /\ NoLocals
    /\ NoWrapper

\* GIMME(S, lb, ub, properties) for a run: a model of N reactions none of which
\* touches a metabolite, with evidence e, objectives o and flux threshold t
InitGimme(N, e, o, t) ==
    /\ S = [i \in Range(N) |-> [m \in Range(NumMetabolites) |-> 0]]
    /\ \E b \in [Range(N) -> RunBoundPairs] :
          /\ lb = [i \in Range(N) |-> b[i][1]]
          /\ ub = [i \in Range(N) |-> b[i][2]]
    /\ properties = [expression_rxns |-> e, objectives |-> o, flux_threshold |-> t]
    /\ NoLocals
    /\ NoWrapper

\* the runs that vary the evidence and the threshold, under one objective
InitEvidenceRun ==
    \E N \in 1 .. MaxRunN :
       \E e \in Dicts(N, EvidenceValues), o \in Lists(1, [Range(N) -> ObjWeights]),
          t \in FluxThresholds : InitGimme(N, e, o, t)

\* the runs that vary the objectives, without evidence
InitObjectiveRun ==
    \E N \in 1 .. MaxRunN :
       \E o \in Lists(MaxObjectives, [Range(N) -> ObjWeights]), t \in FluxThresholds :
          InitGimme(N, Zeros(0), o, t)

InitRun == InitEvidenceRun \/ InitObjectiveRun

(***************************************************************************)
(* Actions of GIMME                                                        *)
(***************************************************************************)
\* line 23 (and a direct call): make_irreversible(S, lb, ub)
MakeIrreversible ==
    /\ pc = "init"
    /\ LET r == MakeIrreversibleResult(S, lb, ub)
       IN IF r.err = "none"
          THEN /\ Sn' = r.S_new /\ lb_n' = r.nlb /\ ub_n' = r.nub
               /\ irrev_mapping' = r.rx_mapping
               /\ pc' = "mapped" /\ err' = "none"
          ELSE /\ pc' = "raised" /\ err' = r.err
               /\ UNCHANGED <<Sn, lb_n, ub_n, irrev_mapping>>
    /\ UNCHANGED <<S, lb, ub, properties, exp_vector, objectives, objective_values,
                   statuses, gimme_model_objective, run_lb, gimme_solution,
                   reaction_activity_irrev_model, reaction_activity_original>>
    /\ UNCHANGED wrapper_vars

\* lines 25-30: the expression vector
MapEvidence ==
    /\ pc = "mapped"
    /\ exp_vector' = ExpVector(properties.expression_rxns, irrev_mapping, Sn)
    /\ pc' = "evidence"
    /\ UNCHANGED <<S, lb, ub, properties, Sn, lb_n, ub_n, irrev_mapping, objectives,
                   objective_values, statuses, gimme_model_objective, run_lb,
                   gimme_solution, reaction_activity_irrev_model,
                   reaction_activity_original, err>>
    /\ UNCHANGED wrapper_vars

\* lines 32-35: the objectives over the irreversible model; preprocess returns
AdjustObjectives ==
    /\ pc = "evidence"
    /\ LET obj_exps == properties.objectives
           adjusted == [k \in DOMAIN obj_exps |->
                           AdjustObjectiveToIrreversible(Sn, obj_exps[k], irrev_mapping)]
       IN IF \A k \in DOMAIN adjusted : adjusted[k].ok
          THEN /\ objectives' = [k \in DOMAIN adjusted |-> adjusted[k].objective_new]
               /\ pc' = "phase1" /\ err' = "none"
          ELSE /\ pc' = "raised" /\ err' = "IndexError"
               /\ UNCHANGED objectives
    /\ UNCHANGED <<S, lb, ub, properties, Sn, lb_n, ub_n, irrev_mapping, exp_vector,
                   objective_values, statuses, gimme_model_objective, run_lb,
                   gimme_solution, reaction_activity_irrev_model,
                   reaction_activity_original>>
    /\ UNCHANGED wrapper_vars

\* lines 48-53: find_objective_value for the next objective.  The status of the
\* solution is kept beside its value; the source reads only the value.
FindObjectiveValue ==
    /\ pc = "phase1"
    /\ Len(objective_values) < Len(objectives)
    /\ \E sol \in SolverAnswers(objectives[Len(objective_values) + 1], lb_n, ub_n) :
          /\ objective_values' = Append(objective_values, sol.objective_value)
          /\ statuses' = Append(statuses, sol.status)
    /\ UNCHANGED <<S, lb, ub, properties, Sn, lb_n, ub_n, irrev_mapping, exp_vector,
                   objectives, gimme_model_objective, run_lb, gimme_solution,
                   reaction_activity_irrev_model, reaction_activity_original, pc, err>>
    /\ UNCHANGED wrapper_vars

\* line 55: the penalty objective of phase 2
BuildPenalty ==
    /\ pc = "phase1"
    /\ Len(objective_values) = Len(objectives)
    /\ gimme_model_objective' =
          GimmeModelObjective(exp_vector, properties.flux_threshold, Size(Sn))
    /\ pc' = "penalty"
    /\ UNCHANGED <<S, lb, ub, properties, Sn, lb_n, ub_n, irrev_mapping, exp_vector,
                   objectives, objective_values, statuses, run_lb, gimme_solution,
                   reaction_activity_irrev_model, reaction_activity_original, err>>
    /\ UNCHANGED wrapper_vars

\* lines 57-59: the lower bounds of the objective reactions
TightenBounds ==
    /\ pc = "penalty"
    /\ run_lb' = TightenedLb(lb_n, ObjectiveLbs(objectives, objective_values, Size(Sn)))
    /\ pc' = "tightened"
    /\ UNCHANGED <<S, lb, ub, properties, Sn, lb_n, ub_n, irrev_mapping, exp_vector,
                   objectives, objective_values, statuses, gimme_model_objective,
                   gimme_solution, reaction_activity_irrev_model,
                   reaction_activity_original, err>>
    /\ UNCHANGED wrapper_vars

\* lines 61-65: the phase-2 solve
SolveGimme ==
    /\ pc = "tightened"
    /\ gimme_solution' \in GimmeSolutions(gimme_model_objective, run_lb, ub_n)
    /\ pc' = "solved"
    /\ UNCHANGED <<S, lb, ub, properties, Sn, lb_n, ub_n, irrev_mapping, exp_vector,
                   objectives, objective_values, statuses, gimme_model_objective,
                   run_lb, reaction_activity_irrev_model, reaction_activity_original,
                   err>>
    /\ UNCHANGED wrapper_vars

\* lines 67-70: the activity of the irreversible model, folded back; run returns
DeriveActivity ==
    /\ pc = "solved"
    /\ LET a == GetReactionActivity(gimme_solution, exp_vector, properties.flux_threshold)
           f == FoldBack(a.activity, irrev_mapping)
       IN IF a.err # "none"
          THEN /\ pc' = "raised" /\ err' = a.err
               /\ UNCHANGED <<reaction_activity_irrev_model, reaction_activity_original>>
          ELSE IF f.err # "none"
          THEN /\ pc' = "raised" /\ err' = f.err
               /\ reaction_activity_irrev_model' = a.activity
               /\ UNCHANGED reaction_activity_original
          ELSE /\ pc' = "returned" /\ err' = "none"
               /\ reaction_activity_irrev_model' = a.activity
               /\ reaction_activity_original' = f.original
    /\ UNCHANGED <<S, lb, ub, properties, Sn, lb_n, ub_n, irrev_mapping, exp_vector,
                   objectives, objective_values, statuses, gimme_model_objective,
                   run_lb, gimme_solution>>
    /\ UNCHANGED wrapper_vars

(***************************************************************************)
(* ReconstructionWrapper.run_from_omics                                    *)
(***************************************************************************)
\* model_reader.r_ids of a model of n reactions: reaction i has the id <<"R", i>>
ReactionIds(n) == [i \in Range(n) |-> <<"R", i>>]
IdSet(ids) == {ids[i] : i \in DOMAIN ids}

\* line 220: what self.run(properties) does: it raises, or it returns a list of
\* reaction indices of the model
AlgorithmOutcomes(n) ==
    {[kind |-> "raised", exc |-> e, result |-> <<>>] : e \in Exceptions}
    \cup {[kind |-> "returned", exc |-> "none", result |-> r] :
             r \in UNION {[1 .. len -> Range(n)] : len \in 0 .. MaxResultLen}}

\* line 221
ResultNames(ids, algorithm_result) ==
    [j \in DOMAIN algorithm_result |-> ids[algorithm_result[j]]]

\* line 222
InclusionMap(ids, result_names) ==
    [k \in IdSet(ids) |-> \E j \in DOMAIN result_names : result_names[j] = k]

\* the except clause without its raise: every failure becomes the all-False mapping
OnExceptionSwallowed(ids, e, raise) ==
    [pc |-> "returned", raised |-> "none", return |-> [r \in IdSet(ids) |-> FALSE]]

\* lines 224-229: the except clause, after the print of line 225
OnException(ids, e, raise) ==
    IF raise
    THEN [pc |-> "raised", raised |-> e, return |-> Zeros(0)]
    ELSE [pc |-> "returned", raised |-> "none", return |-> [r \in IdSet(ids) |-> FALSE]]

InitWrapper ==
    /\ \E n \in 1 .. MaxReactions : r_ids = ReactionIds(n)
    /\ omics_data \in OmicsTypes
    /\ raise_errors \in BOOLEAN
    /\ algorithm_outcome = [kind |-> "none", exc |-> "none", result |-> <<>>]
    /\ w_pc = "idle" /\ w_return = Zeros(0) /\ w_raised = "none" /\ w_printed = "none"
    /\ S = Zeros(0) /\ lb = Zeros(0) /\ ub = Zeros(0)
    /\ properties = [expression_rxns |-> Zeros(0), objectives |-> <<>>, flux_threshold |-> 1]
    /\ NoLocals

\* lines 198-206: omics_data of another type raises TypeError before the try
RunFromOmicsTypeError ==
    /\ w_pc = "idle"
    /\ omics_data \notin {"OmicsContainer", "dict", "list", "tuple"}
    /\ w_pc' = "raised" /\ w_raised' = "TypeError"
    /\ UNCHANGED <<r_ids, omics_data, raise_errors, algorithm_outcome, w_return, w_printed>>
    /\ UNCHANGED gimme_vars

\* lines 219-229: the run of the algorithm and what becomes of its outcome
RunFromOmics ==
    /\ w_pc = "idle"
    /\ omics_data \in {"OmicsContainer", "dict", "list", "tuple"}
    /\ \E out \in AlgorithmOutcomes(Size(r_ids)) :
          /\ algorithm_outcome' = out
          /\ IF out.kind = "returned"
             THEN /\ w_return' = InclusionMap(r_ids, ResultNames(r_ids, out.result))
                  /\ w_pc' = "returned"
                  /\ UNCHANGED <<w_raised, w_printed>>
             ELSE LET h == OnException(r_ids, out.exc, raise_errors)
                  IN /\ w_printed' = out.exc
                     /\ w_pc' = h.pc /\ w_raised' = h.raised /\ w_return' = h.return
    /\ UNCHANGED <<r_ids, omics_data, raise_errors>>
    /\ UNCHANGED gimme_vars

NextWrapper == RunFromOmicsTypeError \/ RunFromOmics

NextIrrev == MakeIrreversible

NextRun ==
    \/ MakeIrreversible
    \/ MapEvidence
    \/ AdjustObjectives
    \/ FindObjectiveValue
    \/ BuildPenalty
    \/ TightenBounds
    \/ SolveGimme
    \/ DeriveActivity

\* a call of make_irreversible on its own
SpecIrrev == InitIrrev /\ [][NextIrrev]_vars
\* a call of run
Spec == InitRun /\ [][NextRun]_vars
\* a call of run_from_omics
SpecWrapper == InitWrapper /\ [][NextWrapper]_vars


(***************************************************************************)
(* Properties                                                              *)
(***************************************************************************)
\* the reactions of the model, and its reversible and irreversible ones
Reactions == DOMAIN lb
RevSet == {i \in Reactions : Reversible(lb, ub, i)}
IrrevSet == Reactions \ RevSet
\* the number of columns the irreversible model is to have
NPrime == Cardinality(IrrevSet) + 2 * Cardinality(RevSet)
\* the (reaction, position) pairs of the mapping and the new index each claims
Claimed == {<<i, a>> \in Reactions \X {1, 2} : i \in DOMAIN irrev_mapping /\ a <= Len(irrev_mapping[i])}
SlotsOf(i) == {irrev_mapping[i][a] : a \in 1 .. Len(irrev_mapping[i])}
\* make_irreversible has returned
Mapped == pc = "mapped"

\* C1: the map returned by make_irreversible has one entry per original
\* reaction, a single index for an irreversible reaction and a pair for a
\* reversible one; the indices claimed are pairwise distinct and are exactly
\* 0..N'-1, where N' = |irrev| + 2 |rev| is the column count of the new matrix.
C1_MapCoversColumns ==
    Mapped =>
        /\ DOMAIN irrev_mapping = Reactions
        /\ \A i \in Reactions : Len(irrev_mapping[i]) = IF i \in RevSet THEN 2 ELSE 1
        /\ \A p, q \in Claimed :
              p # q => irrev_mapping[p[1]][p[2]] # irrev_mapping[q[1]][q[2]]
        /\ {irrev_mapping[p[1]][p[2]] : p \in Claimed} = Range(NPrime)
        /\ Size(Sn) = NPrime

\* C2: after make_irreversible the forward slot of a reversible reaction has
\* bounds (0, ub[i]) and its backward slot (0, -lb[i]), so that a split slot has
\* lower bound 0 and a non-negative upper bound; a reaction that is not split
\* keeps (lb[i], ub[i]) at its new index.
C2_SplitBounds ==
    Mapped =>
        \A i \in Reactions :
            IF Len(irrev_mapping[i]) = 2
            THEN LET f == irrev_mapping[i][1]
                     b == irrev_mapping[i][2]
                 IN /\ lb_n[f] = 0 /\ ub_n[f] = ub[i]
                    /\ lb_n[b] = 0 /\ ub_n[b] = 0 - lb[i]
                    /\ ub_n[f] >= 0 /\ ub_n[b] >= 0
            ELSE LET k == irrev_mapping[i][1]
                 IN lb_n[k] = lb[i] /\ ub_n[k] = ub[i]

\* C9: the new matrix is the irreversible columns in their order, then the
\* reversible columns in their order, then the negation of those reversible
\* columns; the forward index of a reversible reaction holds its column and the
\* backward index the negated column.
C9_ColumnLayout ==
    Mapped =>
        LET irrev == Irrev(lb, ub)
            rev == Rev(lb, ub)
            neg(col) == [m \in DOMAIN col |-> 0 - col[m]]
        IN /\ Size(Sn) = Len(irrev) + 2 * Len(rev)
           /\ \A n \in 1 .. Len(irrev) : Sn[n - 1] = S[irrev[n]]
           /\ \A n \in 1 .. Len(rev) :
                 /\ Sn[Len(irrev) + n - 1] = S[rev[n]]
                 /\ Sn[Len(irrev) + Len(rev) + n - 1] = neg(S[rev[n]])
           /\ \A i \in RevSet :
                 /\ Sn[irrev_mapping[i][1]] = S[i]
                 /\ Sn[irrev_mapping[i][2]] = neg(S[i])

\* C7: the evidence vector of preprocess has one slot per column of the
\* irreversible model; every slot of a reaction of the input evidence, split
\* or not, holds the reaction's value, and every other slot holds 0.
C7_EvidenceInEverySlot ==
    pc = "evidence" =>
        /\ DOMAIN exp_vector = DOMAIN Sn
        /\ \A rxn \in DOMAIN properties.expression_rxns :
              \A k \in SlotsOf(rxn) : exp_vector[k] = properties.expression_rxns[rxn]
        /\ \A k \in DOMAIN exp_vector :
              (\A rxn \in DOMAIN properties.expression_rxns : k \notin SlotsOf(rxn))
                 => exp_vector[k] = 0

\* a solve of the run has been reported as not optimal
SolveFailed ==
    \/ \E k \in DOMAIN statuses : statuses[k] # "optimal"
    \/ gimme_solution.status \notin {"none", "optimal"}
\* every solve of the run has been made and was optimal
AllOptimal ==
    /\ gimme_solution.status = "optimal"
    /\ \A k \in DOMAIN statuses : statuses[k] = "optimal"

\* C3: once the solver has reported a phase-1 objective or the phase-2 problem
\* infeasible or unbounded, the run has failed: it goes on to no further
\* objective, tightening, phase 2 or activity.
C3_FailsOnInfeasible == SolveFailed => pc = "raised"

\* C4: tightening is monotonic: after the optimal solves of phase 1, the
\* lower bound of every variable of the phase-2 problem is at least the bound
\* it had before tightening.
C4_MonotonicTightening ==
    (pc = "tightened" /\ \A k \in DOMAIN statuses : statuses[k] = "optimal")
        => \A i \in DOMAIN lb_n : run_lb[i] >= lb_n[i]

\* the activity of variable i, from its flux and its evidence
ExpectedActivity(i) ==
    IF gimme_solution.values[i] > 0 THEN 2
    ELSE IF exp_vector[i] > properties.flux_threshold \/ exp_vector[i] = -1 THEN 1
    ELSE 0
\* the run is past get_reaction_activity, every solve having been optimal
ActivityDerived == pc \in {"returned", "raised"} /\ AllOptimal

\* C5: get_reaction_activity gives variable i the activity 2 if its phase-2
\* flux value is positive, otherwise 1 if its evidence is above the threshold
\* or is -1, otherwise 0.
C5_ActivityFromFlux ==
    ActivityDerived =>
        /\ DOMAIN reaction_activity_irrev_model = DOMAIN exp_vector
        /\ \A i \in DOMAIN exp_vector : reaction_activity_irrev_model[i] = ExpectedActivity(i)

RECURSIVE MaxOf(_)
\* the largest element of a non-empty finite set of integers
MaxOf(s) == LET x == CHOOSE x \in s : TRUE
            IN IF s = {x} THEN x ELSE Max2(x, MaxOf(s \ {x}))

\* C6: a run whose solves were all optimal returns one activity per original
\* reaction, the largest activity over the one or two slots of the reaction.
C6_FoldBackMax ==
    ActivityDerived =>
        /\ pc = "returned"
        /\ DOMAIN reaction_activity_original = Reactions
        /\ \A r \in Reactions :
              reaction_activity_original[r] = MaxOf({ExpectedActivity(k) : k \in SlotsOf(r)})

\* line 55 has been run
PenaltyBuilt == gimme_model_objective # Zeros(0)

\* C10: the penalty of variable i is flux_threshold - evidence[i] when
\* -1 < evidence[i] < flux_threshold and 0 otherwise: it is never negative,
\* and it is 0 at the threshold, above it and at the no-data value -1.
C10_Penalty ==
    PenaltyBuilt =>
        /\ DOMAIN gimme_model_objective = DOMAIN Sn
        /\ \A i \in DOMAIN Sn :
              LET e == exp_vector[i]
                  t == properties.flux_threshold
                  p == gimme_model_objective[i]
              IN /\ p >= 0
                 /\ (e >= t \/ e <= -1) => p = 0
                 /\ (-1 < e /\ e < t) => p + e = t

\* a penalty built over a slot at the threshold, a slot at -1 or a slot below
\* -1 and a slot strictly between -1 and the threshold
C10_Witness ==
    /\ PenaltyBuilt
    /\ \E i, j \in DOMAIN gimme_model_objective :
          /\ exp_vector[i] = properties.flux_threshold /\ gimme_model_objective[i] = 0
          /\ exp_vector[j] = 0 /\ gimme_model_objective[j] = properties.flux_threshold

\* the run of the algorithm raised, and the call is over
RunRaised == w_pc # "idle" /\ algorithm_outcome.kind = "raised"
\* the run of the algorithm returned, and the call is over
RunReturned == w_pc # "idle" /\ algorithm_outcome.kind = "returned"

\* C8: when the run of the algorithm raises, run_from_omics raises the same
\* exception if raise_errors is true, and returns False for every reaction id
\* of the reader if it is false; when the run returns, run_from_omics returns a
\* mapping over the reader's ids that is True exactly for the reactions of the
\* result.
C8_RunFromOmics ==
    /\ RunRaised =>
          IF raise_errors
          THEN /\ w_pc = "raised" /\ w_raised = algorithm_outcome.exc
               /\ w_return = Zeros(0)
          ELSE /\ w_pc = "returned" /\ w_raised = "none"
               /\ DOMAIN w_return = IdSet(r_ids)
               /\ \A k \in IdSet(r_ids) : w_return[k] = FALSE
    /\ RunReturned =>
          /\ w_pc = "returned" /\ w_raised = "none"
          /\ DOMAIN w_return = IdSet(r_ids)
          /\ \A i \in DOMAIN r_ids :
                w_return[r_ids[i]] =
                   (\E j \in DOMAIN algorithm_outcome.result : algorithm_outcome.result[j] = i)

\* a failed run turned into the all-False mapping of a model of several reactions
C8_Witness ==
    /\ RunRaised /\ ~raise_errors /\ w_pc = "returned"
    /\ Size(r_ids) > 1
    /\ \A k \in IdSet(r_ids) : w_return[k] = FALSE

=============================================================================
